---- MODULE Spec2Model ----
(* Batch dispatchers of the YouTube family plan emailer:                   *)
(*   github_email_sender.py  send_monthly_emails / send_email (one SMTP    *)
(*                           session per recipient, "with" block)          *)
(*   test_send.py            send_test_emails (one SMTP session shared by  *)
(*                           all recipients)                               *)
(* The SMTP client is an external collaborator: every call on it either    *)
(* returns or raises, chosen nondeterministically.                         *)
EXTENDS Integers, Sequences, FiniteSets, TLC

\* ---------------------------------------------------------------- bounds
MaxRecipients == 3

\* ------------------------------------------------------------ value sets
Addresses == {"a@x.com", "b@x.com"}

NoneVal == "None"

\* os.getenv('SENDER_EMAIL') / os.getenv('SENDER_PASSWORD'): unset, set to
\* the empty string, or set to a value.
EnvValues == {NoneVal, "", "set"}

Variants == {"monthly", "test"}

\* What a call on the SMTP client does: return, or raise one of the
\* exception classes send_test_emails distinguishes.
Outcomes == {"ok", "SMTPAuthenticationError", "SMTPException", "Exception"}

RecipientLists == UNION {[1..n -> Addresses] : n \in 1..MaxRecipients}

VARIABLES
    variant,          \* which script's main() is running
    sender_email,     \* self.sender_email
    sender_password,  \* self.sender_password
    recipients,       \* self.recipients / self.test_recipients
    pc,               \* position in the running script
    i,                \* position of the for loop in the recipient list
    success_count,    \* local success_count
    message,          \* local message (the composed EmailMessage)
    exc,              \* an exception is propagating out of the with body
    sent,             \* return value of send_email
    log,              \* the lines given to logging, in order
    trace,            \* compose / transport / record steps, in order
    openSessions,     \* SMTP sessions connected and not yet closed
    result,           \* return value of send_monthly_emails/send_test_emails
                      \* (meaningful once pc is "returned" or "done")
    exit_code         \* exit code of the process

vars == <<variant, sender_email, sender_password, recipients, pc, i,
          success_count, message, exc, sent, log, trace, openSessions,
          result, exit_code>>

config == <<variant, sender_email, sender_password, recipients>>

NoMessage == [To |-> NoneVal, From |-> NoneVal]

\* ---------------------------------------------------------------- helpers
\* Python truthiness of an optional string: "not v".
Falsy(v) == v = NoneVal \/ v = ""

CredentialsMissingBoth == Falsy(sender_email) /\ Falsy(sender_password)

\* "if not self.sender_email or not self.sender_password"
CredentialsMissing == Falsy(sender_email) \/ Falsy(sender_password)

total_recipients == Len(recipients)

Line(level, text, rcpt) == [level |-> level, text |-> text, rcpt |-> rcpt]

Ev(op, idx, ok) == [op |-> op, idx |-> idx, ok |-> ok]

\* create_email_message / create_test_email_message: the headers that
\* depend on the inputs (the body is a constant template).
create_email_message(recipient) == [To |-> recipient, From |-> sender_email]

\* "return success_count == total_recipients"
AnySuccess(count, total) == count > 0

AllSucceeded(count, total) == count = total

\* The positions of the trace where step op was taken for list entry idx.
Calls(op, idx) == {k \in DOMAIN trace : trace[k].op = op /\ trace[k].idx = idx}

\* "for recipient in self.recipients": the loop moves to the next entry
\* whatever send_email returned.
NextRecipientStopOnFailure(k, ok) == IF ok THEN k + 1 ELSE total_recipients + 1

NextRecipientSkip(k, ok) == k + 2

NextRecipientRetry(k, ok) ==
    IF ok \/ Cardinality(Calls("connect", k)) >= 2 THEN k + 1 ELSE k

NextRecipient(k, ok) == k + 1

Init ==
    /\ variant \in Variants
    /\ sender_email \in EnvValues
    /\ sender_password \in EnvValues
    /\ recipients \in RecipientLists
    /\ pc = "start"
    /\ i = 1
    /\ success_count = 0
    /\ message = NoMessage
    /\ exc = FALSE
    /\ sent = FALSE
    /\ log = <<>>
    /\ trace = <<>>
    /\ openSessions = 0
    /\ result = FALSE
    /\ exit_code = -1

\* ------------------------------------------------ github_email_sender.py
\* send_monthly_emails, up to the loop: the two start lines, the
\* credential check, the counters.
send_monthly_emails_begin ==
    /\ pc = "start"
    /\ variant = "monthly"
    /\ IF CredentialsMissing
       THEN /\ log' = log \o << Line("INFO", "Starting monthly email send", "-"),
                               Line("INFO", "Today is", "-"),
                               Line("ERROR", "Email credentials not found", "-") >>
            /\ result' = FALSE
            /\ pc' = "returned"
            /\ UNCHANGED success_count
       ELSE /\ log' = log \o << Line("INFO", "Starting monthly email send", "-"),
                               Line("INFO", "Today is", "-"),
                               Line("INFO", "Recipients to send to", "-") >>
            /\ success_count' = 0
            /\ pc' = "m_loop"
            /\ UNCHANGED result
    /\ UNCHANGED <<config, i, message, exc, sent, trace, openSessions, exit_code>>

\* The head of "for recipient in self.recipients": compose the message for
\* the next recipient, or leave the loop, log the tally and return.
send_monthly_emails_loop ==
    /\ pc = "m_loop"
    /\ IF i <= total_recipients
       THEN /\ log' = Append(log, Line("INFO", "Preparing email for", recipients[i]))
            /\ message' = create_email_message(recipients[i])
            /\ trace' = Append(trace, Ev("compose", i, TRUE))
            /\ pc' = "m_connect"
            /\ UNCHANGED result
       ELSE /\ log' = Append(log, Line("INFO", "Email send complete", "-"))
            /\ result' = AllSucceeded(success_count, total_recipients)
            /\ pc' = "returned"
            /\ UNCHANGED <<message, trace>>
    /\ UNCHANGED <<config, i, success_count, exc, sent, openSessions, exit_code>>

\* send_email: "with smtplib.SMTP(host, port) as server". A constructor
\* that raises never enters the with block: the except clause logs and
\* send_email returns False.
send_email_connect ==
    /\ pc = "m_connect"
    /\ \E ok \in BOOLEAN :
        /\ trace' = Append(trace, Ev("connect", i, ok))
        /\ IF ok
           THEN /\ openSessions' = openSessions + 1
                /\ pc' = "m_starttls"
                /\ UNCHANGED <<log, sent>>
           ELSE /\ log' = Append(log, Line("ERROR", "Failed to send email to", recipients[i]))
                /\ sent' = FALSE
                /\ pc' = "m_record"
                /\ UNCHANGED openSessions
    /\ UNCHANGED <<config, i, success_count, message, exc, result, exit_code>>

\* One call inside the with body: server.starttls(), server.login(...),
\* server.send_message(message). A raise leaves the body through __exit__.
WithBodyCallIgnoreFailure(at, op, next) ==
    /\ pc = at
    /\ \E ok \in BOOLEAN :
        /\ trace' = Append(trace, Ev(op, i, ok))
        /\ exc' = FALSE
        /\ pc' = next
    /\ UNCHANGED <<config, i, success_count, message, sent, log, openSessions,
                   result, exit_code>>

WithBodyCall(at, op, next) ==
    /\ pc = at
    /\ \E ok \in BOOLEAN :
        /\ trace' = Append(trace, Ev(op, i, ok))
        /\ exc' = ~ok
        /\ pc' = IF ok THEN next ELSE "m_exit"
    /\ UNCHANGED <<config, i, success_count, message, sent, log, openSessions,
                   result, exit_code>>

send_email_starttls == WithBodyCall("m_starttls", "starttls", "m_login")

send_email_login == WithBodyCall("m_login", "login", "m_send")

send_email_send_message == WithBodyCall("m_send", "send_message", "m_exit")

\* Leaving the with block closes the session on every path.
KeepOpenOnError(n, failed) == IF failed THEN n ELSE n - 1

SessionsAfterExit(n, failed) == n - 1

\* The end of the with block and the rest of send_email. __exit__ sends
\* QUIT and closes the socket; QUIT itself may raise. With an exception
\* already propagating the outcome of QUIT changes nothing: the except
\* clause logs and send_email returns False.
send_email_exit ==
    /\ pc = "m_exit"
    /\ \E ok \in (IF exc THEN {FALSE} ELSE BOOLEAN) :
        /\ trace' = Append(trace, Ev("quit", i, ok))
        /\ openSessions' = SessionsAfterExit(openSessions, ~ok)
        /\ sent' = ok
        /\ log' = Append(log,
                    IF ok THEN Line("INFO", "Email sent successfully to", recipients[i])
                          ELSE Line("ERROR", "Failed to send email to", recipients[i]))
    /\ exc' = FALSE
    /\ pc' = "m_record"
    /\ UNCHANGED <<config, i, success_count, message, result, exit_code>>

\* "success_count += 1" when send_email returned True.
TallyAlways(count, ok) == count + 1

Tally(count, ok) == IF ok THEN count + 1 ELSE count

\* The line send_monthly_emails logs once send_email has returned.
RecordLineInfoOnly(ok, recipient) ==
    Line("INFO", IF ok THEN "Successfully sent to" ELSE "Failed to send to", recipient)

RecordLine(ok, recipient) ==
    IF ok THEN Line("INFO", "Successfully sent to", recipient)
          ELSE Line("ERROR", "Failed to send to", recipient)

\* The body of the loop after send_email has returned, and the step to the
\* next recipient.
send_monthly_emails_record ==
    /\ pc = "m_record"
    /\ success_count' = Tally(success_count, sent)
    /\ log' = Append(log, RecordLine(sent, recipients[i]))
    /\ trace' = Append(trace, Ev("record", i, sent))
    /\ i' = NextRecipient(i, sent)
    /\ pc' = "m_loop"
    /\ UNCHANGED <<config, message, exc, sent, openSessions, result, exit_code>>

\* ----------------------------------------------------------- test_send.py
\* The lines the three outer except clauses of send_test_emails log.
HandlerLines(o) ==
    IF o = "SMTPAuthenticationError"
    THEN << Line("ERROR", "SMTP Authentication failed", "-"),
            Line("ERROR", "Make sure you're using a Gmail App Password", "-") >>
    ELSE IF o = "SMTPException"
    THEN << Line("ERROR", "SMTP error occurred", "-") >>
    ELSE << Line("ERROR", "Failed to send TEST emails", "-") >>

\* send_test_emails, up to the try block.
send_test_emails_begin ==
    /\ pc = "start"
    /\ variant = "test"
    /\ IF CredentialsMissing
       THEN /\ log' = log \o << Line("ERROR", "Email credentials not found", "-"),
                               Line("ERROR", "Please set SENDER_EMAIL and SENDER_PASSWORD", "-") >>
            /\ result' = FALSE
            /\ pc' = "returned"
            /\ UNCHANGED success_count
       ELSE /\ log' = log \o << Line("INFO", "Sending TEST emails for", "-"),
                               Line("INFO", "Test recipients", "-"),
                               Line("INFO", "SMTP Server", "-"),
                               Line("INFO", "Sender Email", "-") >>
            /\ success_count' = 0
            /\ pc' = "t_connect"
            /\ UNCHANGED result
    /\ UNCHANGED <<config, i, message, exc, sent, trace, openSessions, exit_code>>

\* One of the three calls that set the shared session up. A raise is
\* caught by an outer except clause, which logs and returns False; nothing
\* on that path closes the session.
SessionSetupCall(at, op, okLine, next, opens) ==
    /\ pc = at
    /\ \E o \in Outcomes :
        /\ trace' = Append(trace, Ev(op, 0, o = "ok"))
        /\ IF o = "ok"
           THEN /\ log' = Append(log, Line("INFO", okLine, "-"))
                /\ openSessions' = openSessions + opens
                /\ pc' = next
                /\ UNCHANGED result
           ELSE /\ log' = log \o HandlerLines(o)
                /\ result' = FALSE
                /\ pc' = "returned"
                /\ UNCHANGED openSessions
    /\ UNCHANGED <<config, i, success_count, message, exc, sent, exit_code>>

send_test_emails_connect ==
    SessionSetupCall("t_connect", "connect", "SMTP connection established", "t_starttls", 1)

send_test_emails_starttls ==
    SessionSetupCall("t_starttls", "starttls", "TLS started", "t_login", 0)

send_test_emails_login ==
    SessionSetupCall("t_login", "login", "Login successful", "t_loop", 0)

\* "for recipient in self.test_recipients": the inner except clause
\* catches the failure of one recipient and the loop goes on.
NextTestRecipientStopOnFailure(k, ok) == IF ok THEN k + 1 ELSE total_recipients + 1

NextTestRecipient(k, ok) == k + 1

\* The head of the loop: compose the message for the next recipient, or
\* leave the loop.
send_test_emails_loop ==
    /\ pc = "t_loop"
    /\ IF i <= total_recipients
       THEN /\ message' = create_email_message(recipients[i])
            /\ trace' = Append(trace, Ev("compose", i, TRUE))
            /\ pc' = "t_send"
       ELSE /\ pc' = "t_quit"
            /\ UNCHANGED <<message, trace>>
    /\ UNCHANGED <<config, i, success_count, exc, sent, log, openSessions,
                   result, exit_code>>

\* server.send_message(message) over the shared session, and the record
\* of its outcome.
send_test_emails_send ==
    /\ pc = "t_send"
    /\ \E ok \in BOOLEAN :
        /\ trace' = trace \o << Ev("send_message", i, ok), Ev("record", i, ok) >>
        /\ log' = Append(log,
                    IF ok THEN Line("INFO", "TEST email sent successfully to", recipients[i])
                          ELSE Line("ERROR", "Failed to send TEST email to", recipients[i]))
        /\ success_count' = Tally(success_count, ok)
        /\ sent' = ok
        /\ i' = NextTestRecipient(i, ok)
    /\ pc' = "t_loop"
    /\ UNCHANGED <<config, message, exc, openSessions, result, exit_code>>

\* server.quit(), the tally and the return. When quit raises, nothing in
\* the script tells whether the client had released the socket.
send_test_emails_quit ==
    /\ pc = "t_quit"
    /\ \E o \in Outcomes :
        /\ trace' = Append(trace, Ev("quit", 0, o = "ok"))
        /\ IF o = "ok"
           THEN /\ openSessions' = openSessions - 1
                /\ log' = Append(log, Line("INFO", "Email send complete", "-"))
                /\ result' = AllSucceeded(success_count, total_recipients)
           ELSE /\ openSessions' \in {openSessions, openSessions - 1}
                /\ log' = log \o HandlerLines(o)
                /\ result' = FALSE
    /\ pc' = "returned"
    /\ UNCHANGED <<config, i, success_count, message, exc, sent, exit_code>>

\* ------------------------------------------------------------------ main
\* "if not success: exit(1)"; falling off the end of main exits with 0.
ExitCode(success) == IF success THEN 0 ELSE 1

main ==
    /\ pc = "returned"
    /\ exit_code' = ExitCode(result)
    /\ pc' = "done"
    /\ UNCHANGED <<config, i, success_count, message, exc, sent, log, trace,
                   openSessions, result>>

Next ==
    \/ send_monthly_emails_begin
    \/ send_monthly_emails_loop
    \/ send_email_connect
    \/ send_email_starttls
    \/ send_email_login
    \/ send_email_send_message
    \/ send_email_exit
    \/ send_monthly_emails_record
    \/ send_test_emails_begin
    \/ send_test_emails_connect
    \/ send_test_emails_starttls
    \/ send_test_emails_login
    \/ send_test_emails_loop
    \/ send_test_emails_send
    \/ send_test_emails_quit
    \/ main

Spec == Init /\ [][Next]_vars

\* Every call of the script returns or raises, and the interpreter then
\* runs the next statement: the run never stops halfway.
FairSpec == Spec /\ WF_vars(Next)

TypeOK ==
    /\ variant \in Variants
    /\ i \in 1..(MaxRecipients + 1)
    /\ success_count \in 0..MaxRecipients
    /\ openSessions \in 0..1
    /\ result \in BOOLEAN
    /\ exit_code \in {-1, 0, 1}

\* ================================================================ claims
NoCredentials ==
    \/ sender_email = NoneVal \/ sender_email = ""
    \/ sender_password = NoneVal \/ sender_password = ""

Returned == pc \in {"returned", "done"}

TransportOps == {"connect", "starttls", "login", "send_message", "quit"}

TransportCalls == {k \in DOMAIN trace : trace[k].op \in TransportOps}

Entries == 1..Len(recipients)

\* The list entries for which some transport call raised.
FailedEntries ==
    {j \in Entries : \E k \in TransportCalls : trace[k].idx = j /\ ~trace[k].ok}

\* The list entries whose message was submitted and whose send did not fail.
SucceededEntries ==
    {j \in Entries : Calls("send_message", j) # {} /\ j \notin FailedEntries}

LinesWith(level, text) ==
    {k \in DOMAIN log : log[k].level = level /\ log[k].text = text}

ErrorLinesNaming(r) ==
    {k \in DOMAIN log : log[k].level = "ERROR" /\ log[k].rcpt = r}

FailedSendsTo(r) == {j \in FailedEntries : recipients[j] = r}

\* C1: with the sender address or the sender secret absent or empty, the
\* run of either script makes no transport call at all, opens no session,
\* counts no success and returns failure.
C1_NoCredentialsNoTransport ==
    NoCredentials =>
        /\ trace = <<>>
        /\ openSessions = 0
        /\ success_count = 0
        /\ LinesWith("INFO", "Email send complete") = {}
        /\ Returned => result = FALSE

C1_Witness ==
    /\ pc = "done"
    /\ sender_email = "set"
    /\ sender_password = ""
    /\ Len(recipients) = 2

\* C2: send_monthly_emails with credentials ends with success_count equal
\* to the number of entries minus the number of entries whose send failed,
\* the recipients it recorded as failed are exactly those whose send
\* failed, and it returns success exactly when no send failed.
C2_TallyMatchesFailures ==
    (variant = "monthly" /\ ~NoCredentials /\ Returned) =>
        /\ success_count = Len(recipients) - Cardinality(FailedEntries)
        /\ {log[k].rcpt : k \in LinesWith("ERROR", "Failed to send to")}
             = {recipients[j] : j \in FailedEntries}
        /\ Cardinality(LinesWith("ERROR", "Failed to send to"))
             = Cardinality(FailedEntries)
        /\ result = (FailedEntries = {})

C2_Witness ==
    /\ pc = "done"
    /\ variant = "monthly"
    /\ Len(recipients) = 3
    /\ FailedEntries = {2}
    /\ success_count = 2

\* C3: send_monthly_emails with credentials composes for and attempts
\* every entry of the list, whatever happened to the earlier entries, and
\* the run then terminates.
C3_EveryRecipientAttempted ==
    (variant = "monthly" /\ ~NoCredentials)
        ~> (/\ pc = "done"
            /\ \A j \in Entries :
                 Calls("compose", j) # {} /\ Calls("connect", j) # {})

C3_Witness ==
    /\ pc = "done"
    /\ variant = "monthly"
    /\ Len(recipients) = 3
    /\ FailedEntries = {1, 2}
    /\ Calls("send_message", 3) # {}

\* C4: the process exits with 0 exactly when the credentials were there
\* and the send of every recipient succeeded.
C4_ExitCodeZeroIffAllSent ==
    pc = "done" =>
        (exit_code = 0 <=> (~NoCredentials /\ SucceededEntries = Entries))

\* C5: no run of send_test_emails returns with the shared session open.
C5_SharedSessionReleased ==
    (variant = "test" /\ Returned) => openSessions = 0

\* C6 (as stated): in send_test_emails no recipient is attempted after one
\* whose submission failed.
C6_FailureAbortsBatch ==
    variant = "test" =>
        \A k1, k2 \in DOMAIN trace :
            (k1 < k2 /\ trace[k1].op = "send_message" /\ ~trace[k1].ok)
                => trace[k2].op # "send_message"

\* C6 (amended): in send_test_emails a failed submission does not abort
\* the batch: once login has succeeded every entry of the list gets its
\* submission attempt over the one session before the session is quit.
C6_FailureDoesNotAbortBatch ==
    (variant = "test" /\ Calls("login", 0) # {} /\ trace[Len(trace)].op = "quit") =>
        /\ \A j \in Entries : Cardinality(Calls("send_message", j)) = 1
        /\ Cardinality(Calls("connect", 0)) = 1
        /\ success_count = Len(recipients) - Cardinality(FailedEntries)

C6_Witness ==
    /\ pc = "done"
    /\ variant = "test"
    /\ Len(recipients) = 3
    /\ FailedEntries = {1}
    /\ Calls("send_message", 3) # {}

\* C7 (as stated): after send_monthly_emails the log has exactly one ERROR
\* line naming a recipient for each of its failed sends.
C7_OneErrorLinePerFailure ==
    (variant = "monthly" /\ ~NoCredentials /\ Returned) =>
        \A r \in Addresses :
            Cardinality(ErrorLinesNaming(r)) = Cardinality(FailedSendsTo(r))

\* C7 (amended): after send_monthly_emails the log has exactly two ERROR
\* lines naming a recipient for each of its failed sends, one written by
\* send_email and one by send_monthly_emails, and none for a recipient
\* whose sends all succeeded.
C7_TwoErrorLinesPerFailure ==
    (variant = "monthly" /\ ~NoCredentials /\ Returned) =>
        \A r \in Addresses :
            /\ Cardinality(ErrorLinesNaming(r)) = 2 * Cardinality(FailedSendsTo(r))
            /\ Cardinality({k \in ErrorLinesNaming(r) : log[k].text = "Failed to send email to"})
                 = Cardinality(FailedSendsTo(r))
            /\ Cardinality({k \in ErrorLinesNaming(r) : log[k].text = "Failed to send to"})
                 = Cardinality(FailedSendsTo(r))

C7_Witness ==
    /\ pc = "done"
    /\ variant = "monthly"
    /\ recipients = <<"a@x.com", "b@x.com">>
    /\ FailedEntries = {2}
    /\ Cardinality(ErrorLinesNaming("b@x.com")) = 2
    /\ ErrorLinesNaming("a@x.com") = {}

EntrySteps == {k \in DOMAIN trace : trace[k].idx >= 1}

C9_OneRecipientAtATime ==
    /\ \A k1, k2 \in EntrySteps : k1 < k2 => trace[k1].idx <= trace[k2].idx
    /\ \A k \in EntrySteps :
         /\ trace[k].idx <= Len(recipients)
         /\ \A j \in 1..(trace[k].idx - 1) :
              \E r \in Calls("record", j) : r < k
         /\ \E c \in Calls("compose", trace[k].idx) : c <= k
         /\ trace[k].op = "record" =>
              \A k2 \in EntrySteps : k2 > k => trace[k2].idx > trace[k].idx

C9_Witness ==
    /\ pc = "done"
    /\ variant = "test"
    /\ Len(recipients) = 3
    /\ FailedEntries = {2}
    /\ Calls("record", 3) # {}

\* C10: no retries: within one run every list entry gets at most one
\* message submission and at most one session-open attempt, the shared
\* session of send_test_emails is opened at most once, and no entry is
\* composed for twice.
C10_NoRetries ==
    /\ \A j \in 0..Len(recipients) :
         /\ Cardinality(Calls("send_message", j)) <= 1
         /\ Cardinality(Calls("connect", j)) <= 1
         /\ Cardinality(Calls("compose", j)) <= 1
    /\ variant = "test" =>
         Cardinality({k \in DOMAIN trace : trace[k].op = "connect"}) <= 1

C10_Witness ==
    /\ pc = "done"
    /\ variant = "monthly"
    /\ Len(recipients) = 2
    /\ \E k \in DOMAIN trace : trace[k] = Ev("send_message", 1, FALSE)
    /\ Calls("connect", 2) # {}

\* C11: a message is submitted only over a session on which connect, then
\* starttls, then login have succeeded, in that order, and on which none of
\* the three has failed. The session of a submission is the one opened for
\* its list entry in send_email and the shared one in send_test_emails.
SessionOf(k) == IF variant = "test" THEN 0 ELSE trace[k].idx

SetupOps == {"connect", "starttls", "login"}

C11_SubmitOnlyWhenAuthenticated ==
    \A k \in DOMAIN trace :
        trace[k].op = "send_message" =>
            /\ \E c \in Calls("connect", SessionOf(k)) :
               \E t \in Calls("starttls", SessionOf(k)) :
               \E l \in Calls("login", SessionOf(k)) :
                 /\ c < t /\ t < l /\ l < k
                 /\ trace[c].ok /\ trace[t].ok /\ trace[l].ok
            /\ \A p \in DOMAIN trace :
                 (trace[p].op \in SetupOps /\ trace[p].idx = SessionOf(k))
                     => trace[p].ok

C11_Witness ==
    /\ pc = "done"
    /\ variant = "monthly"
    /\ Len(recipients) = 2
    /\ \E k \in DOMAIN trace : trace[k] = Ev("login", 1, FALSE)
    /\ Calls("send_message", 1) = {}
    /\ \E k \in DOMAIN trace : trace[k] = Ev("send_message", 2, TRUE)

\* C12: in send_test_emails, when connect, starttls or login fails no
\* message is composed or submitted for any recipient and the run returns
\* failure; once login has succeeded the run returns success exactly when
\* the submission for every recipient succeeded.
SetupFailed == \E k \in DOMAIN trace : trace[k].op \in SetupOps /\ ~trace[k].ok

LoginSucceeded == \E k \in DOMAIN trace : trace[k] = Ev("login", 0, TRUE)

EverySubmissionSucceeded ==
    \A j \in Entries : \E k \in DOMAIN trace : trace[k] = Ev("send_message", j, TRUE)

C12_SharedSessionResult ==
    (variant = "test" /\ ~NoCredentials /\ Returned) =>
        /\ SetupFailed =>
             /\ \A k \in DOMAIN trace : trace[k].op \notin {"compose", "send_message"}
             /\ result = FALSE
        /\ LoginSucceeded => (result = TRUE <=> EverySubmissionSucceeded)

====
